---- MODULE Spec2Model ----
(***************************************************************************)
(* Model of the Minesweeper knowledge base of 1_Knowledge/minesweeper:     *)
(* class Sentence and class MinesweeperAI, driven by the oracle            *)
(* Minesweeper.nearby_mines.  Sentences are heap objects with identity     *)
(* (an index into sent); self.knowledge is the list of their identities.   *)
(* add_knowledge runs as a sequence of steps, one per call of              *)
(* MinesweeperAI.mark_mine / mark_safe and one per iteration of the loops  *)
(* of reason_about_new_knowledge, with an explicit stack for its recursion.*)
(* A second part models result, player and actions of 0_Search/tictactoe,  *)
(* a play being a sequence of calls of result.                             *)
(***************************************************************************)
EXTENDS Integers, Sequences, FiniteSets, TLC

\* ---- bounds of the model ----
MaxCells == 6
MaxCellsArb == 4
MaxObs == 4
MaxObsArb == 2
MaxCount == 2
MaxOrders == 2

VARIABLES height, width, layout, moves_made, mines, safes, sent, knowledge,
          pc, pend, stack, obs, move, lastOp,
          board, call, movers, best

vars == <<height, width, layout, moves_made, mines, safes, sent, knowledge,
          pc, pend, stack, obs, move, lastOp, board, call, movers,
          best>>

\* the part of the state the AI owns
kb == <<moves_made, mines, safes, sent, knowledge>>

None == <<"None">>

\* MinesweeperAI.calculate_all_moves: range(0, height) x range(0, width)
calculate_all_moves(h, w) == (0 .. h - 1) \X (0 .. w - 1)

all_moves == calculate_all_moves(height, width)

\* cells outside the grid that a caller may pass to add_knowledge
OutCells == {<<-1, 0>>, <<height, width>>}

\* the 3x3 block around cell, cut to the grid (the loops of
\* get_unknown_neighbours and of nearby_mines); contains cell itself
Block(cell) ==
  {c \in all_moves : /\ c[1] \in (cell[1] - 1) .. (cell[1] + 1)
                     /\ c[2] \in (cell[2] - 1) .. (cell[2] + 1)}

\* Minesweeper.nearby_mines: mines in the block, the cell itself ignored
nearby_mines(cell) == Cardinality({c \in Block(cell) : c # cell /\ c \in layout})

\* mutant: the known mines filtered out of the neighbours as well (the test
\* commented out on line 289), the count left as reported
get_unknown_neighbours_skip_mines(cell, sf) ==
  {c \in Block(cell) : c \notin sf /\ c \notin mines}

\* MinesweeperAI.get_unknown_neighbours, evaluated with the set sf of safes
get_unknown_neighbours(cell, sf) == {c \in Block(cell) : c \notin sf}

Range(s) == {s[i] : i \in DOMAIN s}

\* Sentence.known_mines / Sentence.known_safes
known_mines(s) == IF s.count = Cardinality(s.cells) THEN s.cells ELSE {}

\* mutant: the test of known_mines copied into known_safes
known_safes_full_count(s) ==
  IF s.count = Cardinality(s.cells) THEN s.cells ELSE {}

known_safes(s) == IF s.count = 0 THEN s.cells ELSE {}

\* mutant: the cell removed, the count not decremented
Sentence_mark_mine_keep_count(s, cell) ==
  IF cell \notin s.cells THEN s
  ELSE [cells |-> s.cells \ {cell}, count |-> s.count]

\* mutant: the count decremented whether or not the cell is in the sentence
Sentence_mark_mine_no_guard(s, cell) ==
  [cells |-> s.cells \ {cell}, count |-> s.count - 1]

\* Sentence.mark_mine / Sentence.mark_safe
Sentence_mark_mine(s, cell) ==
  IF cell \notin s.cells THEN s
  ELSE [cells |-> s.cells \ {cell}, count |-> s.count - 1]

\* mutant: the count decremented as for a mine
Sentence_mark_safe_decrement(s, cell) ==
  IF cell \notin s.cells THEN s
  ELSE [cells |-> s.cells \ {cell}, count |-> s.count - 1]

Sentence_mark_safe(s, cell) ==
  IF cell \notin s.cells THEN s
  ELSE [cells |-> s.cells \ {cell}, count |-> s.count]

\* the loops of MinesweeperAI.mark_mine / mark_safe over self.knowledge:
\* only the sentences that are in the list kn are updated
BroadcastMine(st, kn, cell) ==
  [id \in DOMAIN st |->
     IF id \in Range(kn) THEN Sentence_mark_mine(st[id], cell) ELSE st[id]]

\* mutant: the loop stops after the first sentence of the list
BroadcastSafe_first_only(st, kn, cell) ==
  [id \in DOMAIN st |->
     IF kn # <<>> /\ id = kn[1] THEN Sentence_mark_safe(st[id], cell) ELSE st[id]]

BroadcastSafe(st, kn, cell) ==
  [id \in DOMAIN st |->
     IF id \in Range(kn) THEN Sentence_mark_safe(st[id], cell) ELSE st[id]]

\* MinesweeperAI.clean_up_empty_knowledge: pop every empty sentence
NonEmptyId(st, id) == st[id].cells # {}

clean_up_empty_knowledge(kn, st) ==
  LET keep(id) == NonEmptyId(st, id) IN SelectSeq(kn, keep)

\* the gathering loop of reason_about_new_knowledge (lines 217-221)
GatherMines(kn, st) == UNION {known_mines(st[id]) : id \in Range(kn)}

GatherSafes(kn, st) == UNION {known_safes(st[id]) : id \in Range(kn)}

\* a call of reason_about_new_knowledge(sentence id): the early return on
\* an empty sentence leaves the stack as it is, otherwise a frame is pushed
\* at the head of the while loop (added_knowledge = True)
CallReason(stk, st, id) ==
  IF st[id].cells = {} THEN stk
  ELSE Append(stk, [nk |-> id, pc |-> "while", it |-> 0,
                    km |-> {}, ks |-> {}, prevS |-> 0, prevM |-> 0])

Top == stack[Len(stack)]

Pop(stk) == SubSeq(stk, 1, Len(stk) - 1)

SetTop(stk, f) == [stk EXCEPT ![Len(stk)] = f]

\* add_knowledge returns when the outermost reason_about_new_knowledge does
PcAfter(stk) == IF stk = <<>> THEN "idle" ELSE "reason"

\* mutant: added_knowledge is never reset, the while loop never ends
Settle_never_stop(f, sf, mn) ==
  IF f.km # {} \/ f.ks # {} THEN f ELSE [f EXCEPT !.pc = "while"]

\* lines 228-235 once both marking loops are finished: loop again when a
\* set grew, otherwise go on to the for loop with a fresh list iterator
Settle(f, sf, mn) ==
  IF f.km # {} \/ f.ks # {} THEN f
  ELSE IF f.prevS # Cardinality(sf) \/ f.prevM # Cardinality(mn)
       THEN [f EXCEPT !.pc = "while"]
       ELSE [f EXCEPT !.pc = "for", !.it = 0]

TypeOK ==
  /\ height >= 1
  /\ width >= 1
  /\ layout \subseteq all_moves
  /\ moves_made \subseteq all_moves \cup OutCells
  /\ mines \subseteq all_moves
  /\ safes \subseteq all_moves \cup OutCells
  /\ knowledge \in Seq(DOMAIN sent)
  /\ pc \in {"idle", "discharge", "reason"}
  /\ lastOp \in {"init", "observe", "safe", "random", "rerun"}

\* ---- tic-tac-toe: the board is a function of the cell (row, column);
\* EMPTY stands for Python's None ----
X == "X"

O == "O"

EMPTY == "None"

Cells3 == (0 .. 2) \X (0 .. 2)

initial_state == [c \in Cells3 |-> EMPTY]

\* list.count over the flattened board
Count(b, mark) == Cardinality({c \in Cells3 : b[c] = mark})

player(b) == IF Count(b, O) >= Count(b, X) THEN X ELSE O

actions(b) == {c \in Cells3 : b[c] = EMPTY}

\* mutant: only the bounds are checked, an occupied cell is written over
result_unchecked(b, action) ==
  IF action \notin Cells3
  THEN [raised |-> TRUE, input |-> b, ret |-> b]
  ELSE [raised |-> FALSE, input |-> b,
        ret |-> [b EXCEPT ![action] = player(b)]]

\* result(board, action): whether ValueError is raised, the board passed in
\* as it is after the call, and the board returned (ret is not read when
\* ValueError is raised).  copy.deepcopy makes resulting_board a new object,
\* so the assignment does not reach the board passed in.
result(b, action) ==
  IF action \notin actions(b)
  THEN [raised |-> TRUE, input |-> b, ret |-> b]
  ELSE LET resulting_board == b
       IN [raised |-> FALSE, input |-> b,
           ret |-> [resulting_board EXCEPT ![action] = player(b)]]

\* float("inf"): above every utility
Inf == 2

Max(a, b) == IF a >= b THEN a ELSE b

Min(a, b) == IF a <= b THEN a ELSE b

\* winner: lines = rows + cols + [diag1] + [diag2]
Lines3 ==
  << <<<<0, 0>>, <<0, 1>>, <<0, 2>>>>, <<<<1, 0>>, <<1, 1>>, <<1, 2>>>>,
     <<<<2, 0>>, <<2, 1>>, <<2, 2>>>>,
     <<<<0, 0>>, <<1, 0>>, <<2, 0>>>>, <<<<0, 1>>, <<1, 1>>, <<2, 1>>>>,
     <<<<0, 2>>, <<1, 2>>, <<2, 2>>>>,
     <<<<0, 0>>, <<1, 1>>, <<2, 2>>>>, <<<<0, 2>>, <<1, 1>>, <<2, 0>>>> >>

\* are_all_cells_same_player on the cells of a line of the board b
are_all_cells_same_player(b, line) ==
  LET winner_player == {b[line[i]] : i \in 1 .. 3}
  IN IF Cardinality(winner_player) = 1 /\ EMPTY \notin winner_player
     THEN b[line[1]]
     ELSE EMPTY

\* the for loop of winner, from line i on: the first line one player holds
RECURSIVE winnerFrom(_, _)
winnerFrom(b, i) ==
  IF i > Len(Lines3) THEN EMPTY
  ELSE LET p == are_all_cells_same_player(b, Lines3[i])
       IN IF p # EMPTY THEN p ELSE winnerFrom(b, i + 1)

winner(b) == winnerFrom(b, 1)

terminal(b) == winner(b) # EMPTY \/ actions(b) = {}

utility(b) ==
  LET w == winner(b)
  IN IF w = X THEN 1 ELSE IF w = O THEN -1 ELSE 0

\* ---- the iteration order of the set actions(board): one of MaxOrders
\* orders of the nine cells, the row-major order and others that start
\* elsewhere and go through the cells with another stride, used by every
\* loop of one call of minimax ----
Strides == <<1, 8, 2, 7, 4, 5>>

Order(k) ==
  [i \in 1 .. 9 |->
     LET r == ((i - 1) * Strides[(k % 6) + 1] + k) % 9
     IN <<r \div 3, r % 3>>]

Orders == {Order(k) : k \in 0 .. MaxOrders - 1}

\* ---- maxValue / minValue: the for loop over acts = actions(board) from
\* position i of the order on, with the value so far ----
RECURSIVE maxValue(_, _, _, _), minValue(_, _, _, _)
RECURSIVE maxLoop(_, _, _, _, _, _, _), minLoop(_, _, _, _, _, _, _)
RECURSIVE minimaxLoop(_, _, _, _, _, _, _, _)

maxLoop(b, acts, alpha, beta, ord, i, value) ==
  IF i > Len(ord) THEN value
  ELSE IF ord[i] \notin acts
  THEN maxLoop(b, acts, alpha, beta, ord, i + 1, value)
  ELSE LET v == Max(value, minValue(result(b, ord[i]).ret, alpha, beta, ord))
       IN IF v >= beta THEN v
          ELSE maxLoop(b, acts, Max(alpha, v), beta, ord, i + 1, v)

maxValue(b, alpha, beta, ord) ==
  IF terminal(b) THEN utility(b)
  ELSE maxLoop(b, actions(b), alpha, beta, ord, 1, -Inf)

minLoop(b, acts, alpha, beta, ord, i, value) ==
  IF i > Len(ord) THEN value
  ELSE IF ord[i] \notin acts
  THEN minLoop(b, acts, alpha, beta, ord, i + 1, value)
  ELSE LET v == Min(value, maxValue(result(b, ord[i]).ret, alpha, beta, ord))
       IN IF v <= alpha THEN v
          ELSE minLoop(b, acts, alpha, Min(beta, v), ord, i + 1, v)

minValue(b, alpha, beta, ord) ==
  IF terminal(b) THEN utility(b)
  ELSE minLoop(b, actions(b), alpha, beta, ord, 1, Inf)

\* mutant: the root takes an action whose value ties the best so far
minimaxLoop_not_strict(b, acts, alpha, beta, ord, i, value, chosen_action) ==
  IF i > Len(ord) THEN chosen_action
  ELSE IF ord[i] \notin acts
  THEN minimaxLoop(b, acts, alpha, beta, ord, i + 1, value, chosen_action)
  ELSE LET action == ord[i]
           new_board == result(b, action).ret
       IN IF player(b) = X
          THEN LET new_value == minValue(new_board, alpha, beta, ord)
               IN IF new_value >= value
                  THEN minimaxLoop(b, acts, Max(alpha, new_value), beta, ord,
                                   i + 1, new_value, action)
                  ELSE minimaxLoop(b, acts, Max(alpha, new_value), beta, ord,
                                   i + 1, value, chosen_action)
          ELSE LET new_value == maxValue(new_board, alpha, beta, ord)
               IN IF new_value <= value
                  THEN minimaxLoop(b, acts, alpha, Min(beta, new_value), ord,
                                   i + 1, new_value, action)
                  ELSE minimaxLoop(b, acts, alpha, Min(beta, new_value), ord,
                                   i + 1, value, chosen_action)

\* minimax, lines 109-124: the for loop of the root
minimaxLoop(b, acts, alpha, beta, ord, i, value, chosen_action) ==
  IF i > Len(ord) THEN chosen_action
  ELSE IF ord[i] \notin acts
  THEN minimaxLoop(b, acts, alpha, beta, ord, i + 1, value, chosen_action)
  ELSE LET action == ord[i]
           new_board == result(b, action).ret
       IN IF player(b) = X
          THEN LET new_value == minValue(new_board, alpha, beta, ord)
               IN IF new_value > value
                  THEN minimaxLoop(b, acts, Max(alpha, new_value), beta, ord,
                                   i + 1, new_value, action)
                  ELSE minimaxLoop(b, acts, Max(alpha, new_value), beta, ord,
                                   i + 1, value, chosen_action)
          ELSE LET new_value == maxValue(new_board, alpha, beta, ord)
               IN IF new_value < value
                  THEN minimaxLoop(b, acts, alpha, Min(beta, new_value), ord,
                                   i + 1, new_value, action)
                  ELSE minimaxLoop(b, acts, alpha, Min(beta, new_value), ord,
                                   i + 1, value, chosen_action)

minimax(b, ord) ==
  IF terminal(b) THEN None
  ELSE minimaxLoop(b, actions(b), -Inf, Inf, ord, 1,
                   IF player(b) = X THEN -Inf ELSE Inf, <<0, 0>>)

\* no call of result yet
NoCall ==
  [board |-> initial_state, action |-> None, raised |-> FALSE,
   input |-> initial_state, ret |-> initial_state]

\* the knowledge base runs on its own: no game of tic-tac-toe is on
NoGame ==
  /\ board = None
  /\ call = None
  /\ movers = <<>>
  /\ best = <<>>

InitBoard ==
  /\ board = initial_state
  /\ call = NoCall
  /\ movers = <<>>
  /\ best = <<>>

\* ---- MinesweeperAI.__init__ ----
InitAI ==
  /\ moves_made = {}
  /\ mines = {}
  /\ safes = {}
  /\ sent = <<>>
  /\ knowledge = <<>>
  /\ pc = "idle"
  /\ pend = {}
  /\ stack = <<>>
  /\ obs = <<>>
  /\ move = None
  /\ lastOp = "init"

\* a game: a grid of at most MaxCells cells, and a mine layout that leaves at least one cell free
Init ==
  /\ height \in 1 .. MaxCells
  /\ width \in 1 .. MaxCells
  /\ height * width <= MaxCells
  /\ layout \in SUBSET calculate_all_moves(height, width)
  /\ layout # calculate_all_moves(height, width)
  /\ InitAI
  /\ NoGame

\* no oracle: the caller reports what it likes
InitArb ==
  /\ height \in 1 .. MaxCellsArb
  /\ width \in 1 .. MaxCellsArb
  /\ height * width <= MaxCellsArb
  /\ layout = {}
  /\ InitAI
  /\ NoGame

\* ---- add_knowledge, lines 192-197: record the move, mark the cell safe,
\* build and append the new sentence, find the known mines in it ----
add_knowledge(cell, count) ==
  /\ pc = "idle"
  /\ moves_made' = moves_made \cup {cell}
  /\ safes' = safes \cup {cell}
  /\ LET st1 == BroadcastSafe(sent, knowledge, cell)
         unknown_neighbours == get_unknown_neighbours(cell, safes')
         new_knowledge == [cells |-> unknown_neighbours, count |-> count]
     IN /\ sent' = Append(st1, new_knowledge)
        /\ knowledge' = Append(knowledge, Len(sent) + 1)
        /\ pend' = unknown_neighbours \cap mines
  /\ pc' = "discharge"
  /\ obs' = Append(obs, <<cell, count>>)
  /\ move' = None
  /\ lastOp' = "observe"
  /\ UNCHANGED <<board, call, movers, best, height, width, layout, mines, stack>>

\* the driving loop: a cell that is not a mine, not yet observed, with the
\* count the oracle reports for it
Observe ==
  /\ Len(obs) < MaxObs
  /\ \E cell \in all_moves \ (layout \cup moves_made) :
       add_knowledge(cell, nearby_mines(cell))

\* any caller: any cell, in the grid or not, observed or not, any count
ObserveArb ==
  /\ Len(obs) < MaxObsArb
  /\ \E cell \in all_moves \cup OutCells, count \in 0 .. MaxCount :
       add_knowledge(cell, count)

\* mutant: only the first of the known mines, in the set's iteration order,
\* is discharged into the new sentence
DischargeKnownMine_first_only ==
  /\ pc = "discharge"
  /\ \E mine \in pend :
       /\ mines' = mines \cup {mine}
       /\ sent' = BroadcastMine(sent, knowledge, mine)
       /\ pend' = {}
  /\ UNCHANGED <<board, call, movers, best, height, width, layout, moves_made, safes, knowledge, pc,
                 stack, obs, move, lastOp>>

\* ---- add_knowledge, lines 198-199: one call self.mark_mine(mine) ----
DischargeKnownMine ==
  /\ pc = "discharge"
  /\ \E mine \in pend :
       /\ mines' = mines \cup {mine}
       /\ sent' = BroadcastMine(sent, knowledge, mine)
       /\ pend' = pend \ {mine}
  /\ UNCHANGED <<board, call, movers, best, height, width, layout, moves_made, safes, knowledge, pc,
                 stack, obs, move, lastOp>>

\* ---- add_knowledge, line 201: self.reason_about_new_knowledge(new) ----
StartReasoning ==
  /\ pc = "discharge"
  /\ pend = {}
  /\ stack' = CallReason(stack, sent, knowledge[Len(knowledge)])
  /\ pc' = PcAfter(stack')
  /\ UNCHANGED <<board, call, movers, best, height, width, layout, moves_made, mines, safes, sent,
                 knowledge, pend, obs, move, lastOp>>

\* ---- reason_about_new_knowledge, lines 208-221: head of a pass of the
\* while loop: clean up, remember the sizes, gather what can be marked ----
WhilePass ==
  /\ pc = "reason"
  /\ Top.pc = "while"
  /\ knowledge' = clean_up_empty_knowledge(knowledge, sent)
  /\ LET f == [Top EXCEPT !.pc = "mark",
                          !.km = GatherMines(knowledge', sent),
                          !.ks = GatherSafes(knowledge', sent),
                          !.prevS = Cardinality(safes),
                          !.prevM = Cardinality(mines)]
     IN stack' = SetTop(stack, Settle(f, safes, mines))
  /\ UNCHANGED <<board, call, movers, best, height, width, layout, moves_made, mines, safes, sent,
                 pc, pend, obs, move, lastOp>>

\* ---- lines 223-224: one call self.mark_mine(mine) ----
MarkMine ==
  /\ pc = "reason"
  /\ Top.pc = "mark"
  /\ \E mine \in Top.km :
       /\ mines' = mines \cup {mine}
       /\ sent' = BroadcastMine(sent, knowledge, mine)
       /\ stack' = SetTop(stack,
                      Settle([Top EXCEPT !.km = Top.km \ {mine}], safes, mines'))
  /\ UNCHANGED <<board, call, movers, best, height, width, layout, moves_made, safes, knowledge, pc,
                 pend, obs, move, lastOp>>

\* mutant: marking a cell safe takes it out of self.mines
MarkSafe_unmark_mine ==
  /\ pc = "reason"
  /\ Top.pc = "mark"
  /\ Top.km = {}
  /\ \E safe \in Top.ks :
       /\ safes' = safes \cup {safe}
       /\ mines' = mines \ {safe}
       /\ sent' = BroadcastSafe(sent, knowledge, safe)
       /\ stack' = SetTop(stack,
                      Settle([Top EXCEPT !.ks = Top.ks \ {safe}], safes', mines'))
  /\ UNCHANGED <<board, call, movers, best, height, width, layout, moves_made, knowledge, pc,
                 pend, obs, move, lastOp>>

\* ---- lines 225-226: one call self.mark_safe(safe), after all the mines ----
MarkSafe ==
  /\ pc = "reason"
  /\ Top.pc = "mark"
  /\ Top.km = {}
  /\ \E safe \in Top.ks :
       /\ safes' = safes \cup {safe}
       /\ sent' = BroadcastSafe(sent, knowledge, safe)
       /\ stack' = SetTop(stack,
                      Settle([Top EXCEPT !.ks = Top.ks \ {safe}], safes', mines))
  /\ UNCHANGED <<board, call, movers, best, height, width, layout, moves_made, mines, knowledge, pc,
                 pend, obs, move, lastOp>>

\* mutant: the test for inequality of the two cell sets left out
ProperSuperset_or_equal(existing, new) == new.cells \subseteq existing.cells

\* the test of lines 242-245
ProperSuperset(existing, new) ==
  new.cells \subseteq existing.cells /\ existing.cells # new.cells

\* lines 246-247
Subtract(existing, new) ==
  [cells |-> existing.cells \ new.cells, count |-> existing.count - new.count]

\* ---- lines 237-250: one iteration of the for loop over self.knowledge.
\* The list iterator is an index into the live list: it stops when the
\* index is past the end, and a clean-up that shortens the list shifts the
\* sentences under it ----
ForStep ==
  /\ pc = "reason"
  /\ Top.pc = "for"
  /\ IF Top.it >= Len(knowledge)
     THEN /\ stack' = Pop(stack)
          /\ UNCHANGED <<sent, knowledge>>
     ELSE LET e == knowledge[Top.it + 1]
              f == [Top EXCEPT !.it = Top.it + 1]
          IN IF sent[e].cells = {}
             THEN /\ knowledge' = clean_up_empty_knowledge(knowledge, sent)
                  /\ stack' = SetTop(stack, f)
                  /\ UNCHANGED sent
             ELSE IF ProperSuperset(sent[e], sent[Top.nk])
             THEN /\ sent' = [sent EXCEPT ![e] = Subtract(sent[e], sent[Top.nk])]
                  /\ stack' = CallReason(SetTop(stack, f), sent', e)
                  /\ UNCHANGED knowledge
             ELSE /\ stack' = SetTop(stack, f)
                  /\ UNCHANGED <<sent, knowledge>>
  /\ pc' = PcAfter(stack')
  /\ UNCHANGED <<board, call, movers, best, height, width, layout, moves_made, mines, safes, pend,
                 obs, move, lastOp>>

\* mutant: any safe cell, the moves made not looked at
make_safe_move_any_safe ==
  /\ pc = "idle"
  /\ \/ \E safe \in safes : move' = safe
     \/ safes = {} /\ move' = None
  /\ lastOp' = "safe"
  /\ UNCHANGED <<board, call, movers, best, height, width, layout, moves_made, mines, safes, sent,
                 knowledge, pc, pend, stack, obs>>

\* ---- make_safe_move: the first cell of self.safes, in the set's own
\* iteration order, that is not a move made ----
make_safe_move ==
  /\ pc = "idle"
  /\ \/ \E safe \in safes : safe \notin moves_made /\ move' = safe
     \/ (\A safe \in safes : safe \in moves_made) /\ move' = None
  /\ lastOp' = "safe"
  /\ UNCHANGED <<board, call, movers, best, height, width, layout, moves_made, mines, safes, sent,
                 knowledge, pc, pend, stack, obs>>

\* mutant: any remaining move, the known mines not skipped
make_random_move_any_remaining ==
  /\ pc = "idle"
  /\ LET remaining_moves == all_moves \ moves_made
     IN \/ \E m \in remaining_moves : move' = m
        \/ remaining_moves = {} /\ move' = None
  /\ lastOp' = "random"
  /\ UNCHANGED <<board, call, movers, best, height, width, layout, moves_made, mines, safes, sent,
                 knowledge, pc, pend, stack, obs>>

\* ---- make_random_move: the first of the remaining moves, in the set's
\* own iteration order, that is not a known mine ----
make_random_move ==
  /\ pc = "idle"
  /\ LET remaining_moves == all_moves \ moves_made
     IN \/ \E m \in remaining_moves : m \notin mines /\ move' = m
        \/ (\A m \in remaining_moves : m \in mines) /\ move' = None
  /\ lastOp' = "random"
  /\ UNCHANGED <<board, call, movers, best, height, width, layout, moves_made, mines, safes, sent,
                 knowledge, pc, pend, stack, obs>>

Propagate == DischargeKnownMine \/ StartReasoning \/ WhilePass \/ MarkMine
             \/ MarkSafe \/ ForStep

Next == Observe \/ Propagate \/ make_safe_move \/ make_random_move

NextArb == ObserveArb \/ Propagate \/ make_safe_move \/ make_random_move

Spec == Init /\ [][Next]_vars

SpecArb == InitArb /\ [][NextArb]_vars

\* add_knowledge runs to completion once called: nothing suspends it
SpecArbFair == InitArb /\ [][NextArb]_vars /\ WF_vars(Propagate)

\* ---- a game played with safe moves only: the first cell is any cell
\* that is not a mine, then the caller asks for a safe move after each
\* observation and observes the cell it is given ----
FirstObserve ==
  /\ obs = <<>>
  /\ \E cell \in all_moves \ layout : add_knowledge(cell, nearby_mines(cell))

AskSafeMove ==
  /\ lastOp = "observe"
  /\ make_safe_move

ObserveSafeMove ==
  /\ lastOp = "safe"
  /\ move # None
  /\ add_knowledge(move, nearby_mines(move))

NextSafePlay == FirstObserve \/ Propagate \/ AskSafeMove \/ ObserveSafeMove

\* the caller and add_knowledge are one synchronous loop: it keeps stepping
SpecSafePlay == Init /\ [][NextSafePlay]_vars /\ WF_vars(NextSafePlay)

\* ---- reason_about_new_knowledge called once more, on a sentence of the
\* working set, right after add_knowledge has returned ----
Rerun ==
  /\ pc = "idle"
  /\ lastOp = "observe"
  /\ \E id \in Range(knowledge) :
       stack' = CallReason(stack, sent, id)
  /\ pc' = PcAfter(stack')
  /\ lastOp' = "rerun"
  /\ UNCHANGED <<board, call, movers, best, height, width, layout, moves_made, mines, safes, sent,
                 knowledge, pend, obs, move>>

ObserveBeforeRerun ==
  /\ lastOp # "rerun"
  /\ Observe

NextRerun == ObserveBeforeRerun \/ Propagate \/ Rerun

SpecRerun == Init /\ [][NextRerun]_vars

\* ---- a play of tic-tac-toe: the caller passes its board and any action
\* to result, on the board or off it, and goes on with the board returned,
\* or with the board it passed when ValueError is raised ----
Actions3 == Cells3 \cup {<<-1, 0>>, <<0, 3>>, <<3, 3>>}

InitGame ==
  /\ height = 1
  /\ width = 1
  /\ layout = {}
  /\ InitAI
  /\ InitBoard

Play ==
  /\ \E action \in Actions3 :
       LET r == result(board, action)
       IN /\ call' = [board |-> board, action |-> action, raised |-> r.raised,
                      input |-> r.input, ret |-> r.ret]
          /\ board' = IF r.raised THEN r.input ELSE r.ret
          /\ movers' = IF r.raised THEN movers ELSE Append(movers, player(board))
  /\ UNCHANGED <<best, height, width, layout, moves_made, mines, safes, sent,
                 knowledge, pc, pend, stack, obs, move, lastOp>>

NextGame == Play

SpecGame == InitGame /\ [][NextGame]_vars

\* ---- minimax asked about the boards of a play: a move puts the mark of
\* the player to move on any empty cell, as result does, and minimax is
\* called on the board once, with any of the iteration orders; best holds
\* the call and its answer until the next move ----
Move ==
  /\ \E action \in actions(board) : board' = result(board, action).ret
  /\ best' = <<>>
  /\ UNCHANGED <<call, movers, height, width, layout, moves_made, mines,
                 safes, sent, knowledge, pc, pend, stack, obs, move, lastOp>>

Minimax ==
  /\ best = <<>>
  /\ \E ord \in Orders :
       best' = <<[board |-> board, action |-> minimax(board, ord)]>>
  /\ UNCHANGED <<board, call, movers, height, width, layout, moves_made,
                 mines, safes, sent, knowledge, pc, pend, stack, obs, move,
                 lastOp>>

NextMinimax == Move \/ Minimax

SpecMinimax == InitGame /\ [][NextMinimax]_vars

\* ---- the run of add_knowledge in which every set is iterated in one
\* fixed order, least cell first, computed on a record k of the knowledge
\* base ----
CellLeq(c, d) == c[1] < d[1] \/ (c[1] = d[1] /\ c[2] <= d[2])

Least(S) == CHOOSE c \in S : \A d \in S : CellLeq(c, d)

FixedInit ==
  [mines |-> {}, safes |-> {}, sent |-> <<>>, knowledge |-> <<>>,
   pend |-> {}, stack |-> <<>>, pc |-> "idle"]

\* add_knowledge, lines 192-197
FixedAdd(k, cell, count) ==
  LET sf == k.safes \cup {cell}
      unknown_neighbours == get_unknown_neighbours(cell, sf)
  IN [k EXCEPT
        !.safes = sf,
        !.sent = Append(BroadcastSafe(k.sent, k.knowledge, cell),
                        [cells |-> unknown_neighbours, count |-> count]),
        !.knowledge = Append(k.knowledge, Len(k.sent) + 1),
        !.pend = unknown_neighbours \cap k.mines,
        !.pc = "discharge"]

\* add_knowledge, lines 198-201
FixedDischarge(k) ==
  IF k.pend # {}
  THEN LET mine == Least(k.pend)
       IN [k EXCEPT !.mines = k.mines \cup {mine},
                    !.sent = BroadcastMine(k.sent, k.knowledge, mine),
                    !.pend = k.pend \ {mine}]
  ELSE LET stk == CallReason(k.stack, k.sent, k.knowledge[Len(k.knowledge)])
       IN [k EXCEPT !.stack = stk, !.pc = PcAfter(stk)]

\* reason_about_new_knowledge, lines 208-221
FixedWhile(k) ==
  LET top == k.stack[Len(k.stack)]
      kn == clean_up_empty_knowledge(k.knowledge, k.sent)
      f == [top EXCEPT !.pc = "mark",
                       !.km = GatherMines(kn, k.sent),
                       !.ks = GatherSafes(kn, k.sent),
                       !.prevS = Cardinality(k.safes),
                       !.prevM = Cardinality(k.mines)]
  IN [k EXCEPT !.knowledge = kn,
               !.stack = SetTop(k.stack, Settle(f, k.safes, k.mines))]

\* reason_about_new_knowledge, lines 223-235
FixedMark(k) ==
  LET top == k.stack[Len(k.stack)]
  IN IF top.km # {}
     THEN LET mine == Least(top.km)
              mn == k.mines \cup {mine}
          IN [k EXCEPT
                !.mines = mn,
                !.sent = BroadcastMine(k.sent, k.knowledge, mine),
                !.stack = SetTop(k.stack,
                            Settle([top EXCEPT !.km = top.km \ {mine}], k.safes, mn))]
     ELSE LET safe == Least(top.ks)
              sf == k.safes \cup {safe}
          IN [k EXCEPT
                !.safes = sf,
                !.sent = BroadcastSafe(k.sent, k.knowledge, safe),
                !.stack = SetTop(k.stack,
                            Settle([top EXCEPT !.ks = top.ks \ {safe}], sf, k.mines))]

\* reason_about_new_knowledge, lines 237-250
FixedFor(k) ==
  LET top == k.stack[Len(k.stack)]
  IN IF top.it >= Len(k.knowledge)
     THEN LET stk == Pop(k.stack)
          IN [k EXCEPT !.stack = stk, !.pc = PcAfter(stk)]
     ELSE LET e == k.knowledge[top.it + 1]
              f == [top EXCEPT !.it = top.it + 1]
          IN IF k.sent[e].cells = {}
             THEN [k EXCEPT
                     !.knowledge = clean_up_empty_knowledge(k.knowledge, k.sent),
                     !.stack = SetTop(k.stack, f)]
             ELSE IF ProperSuperset(k.sent[e], k.sent[top.nk])
             THEN LET st == [k.sent EXCEPT
                               ![e] = Subtract(k.sent[e], k.sent[top.nk])]
                      stk == CallReason(SetTop(k.stack, f), st, e)
                  IN [k EXCEPT !.sent = st, !.stack = stk, !.pc = PcAfter(stk)]
             ELSE [k EXCEPT !.stack = SetTop(k.stack, f)]

FixedStep(k) ==
  IF k.pc = "discharge" THEN FixedDischarge(k)
  ELSE LET top == k.stack[Len(k.stack)]
       IN IF top.pc = "while" THEN FixedWhile(k)
          ELSE IF top.pc = "mark" THEN FixedMark(k)
          ELSE FixedFor(k)

RECURSIVE FixedRun(_)
FixedRun(k) == IF k.pc = "idle" THEN k ELSE FixedRun(FixedStep(k))

\* the knowledge base after the first n calls of obs, in the fixed order
RECURSIVE FixedAfter(_)
FixedAfter(n) ==
  IF n = 0 THEN FixedInit
  ELSE FixedRun(FixedAdd(FixedAfter(n - 1), obs[n][1], obs[n][2]))

\* ---- properties ----

\* add_knowledge has been called and has returned
Returned == pc = "idle" /\ obs # <<>>

\* the sentences of the working set self.knowledge
Working == {sent[id] : id \in Range(knowledge)}

\* every call so far was for a cell of the grid not observed before
ValidCalls ==
  /\ \A i \in DOMAIN obs : obs[i][1] \in all_moves
  /\ \A i, j \in DOMAIN obs : i # j => obs[i][1] # obs[j][1]

\* C1: soundness of inference.  With observations of non-mine cells, each
\* once, with their true counts, whenever add_knowledge has returned every
\* cell of self.mines is a mine of the layout and no cell of self.safes is,
\* so the cell make_safe_move returns is never a mine.
C1_Soundness ==
  pc = "idle" =>
    /\ mines \subseteq layout
    /\ safes \cap layout = {}
    /\ (lastOp = "safe" /\ move # None) => move \notin layout

C1_Witness ==
  /\ pc = "idle" /\ lastOp = "safe" /\ move # None
  /\ mines # {} /\ Len(obs) >= 2

\* C2: disjointness at all times.  For calls on grid cells, each observed
\* once, with any reported counts, no cell is both in self.safes and in
\* self.mines, in any state, also in the middle of add_knowledge.
C2_Disjoint == ValidCalls => safes \cap mines = {}

\* C3: discharge completeness.  After add_knowledge returns (true counts),
\* no non-empty sentence of the working set has count = 0 or
\* count = |cells|.
C3_DischargeComplete ==
  Returned =>
    \A s \in Working :
      s.cells # {} => s.count # 0 /\ s.count # Cardinality(s.cells)

\* C4: count bounds.  With true counts, every sentence of the working set
\* has 0 <= count <= |cells| in every state, also after a subset
\* subtraction and after each cell resolved out of it.
C4_CountBounds ==
  \A s \in Working : 0 <= s.count /\ s.count <= Cardinality(s.cells)

C4_Witness ==
  /\ pc = "reason" /\ Len(stack) >= 2
  /\ mines # {}
  /\ \E s \in Working : s.cells # {}

\* a contradiction has been derived: a negative count, a non-zero count on
\* an emptied sentence, or a cell both safe and mine
Contradiction ==
  \/ \E id \in DOMAIN sent : sent[id].count < 0
  \/ \E id \in DOMAIN sent : sent[id].cells = {} /\ sent[id].count # 0
  \/ safes \cap mines # {}

\* C5: contradiction error.  Fed counts that cannot all be true,
\* add_knowledge fails instead of returning normally with a contradiction
\* in the knowledge base, and resolving a cell as a mine never leaves a
\* sentence with a negative count.
C5_ContradictionRaises ==
  ValidCalls =>
    /\ \A s \in Working : s.count >= 0
    /\ Returned => ~Contradiction

\* C6: invalid-call rejection.  A call of add_knowledge for a cell already
\* in self.moves_made, or outside the grid, changes none of moves_made,
\* safes, mines, the sentences and the working set.
C6_InvalidCallRejected ==
  [][(/\ Len(obs') = Len(obs) + 1
      /\ \/ obs'[Len(obs')][1] \in moves_made
         \/ obs'[Len(obs')][1] \notin all_moves)
     => UNCHANGED kb]_vars

\* C7: make_safe_move returns a cell of safes \ moves_made when there is
\* one, None exactly when there is none, and changes nothing of the
\* knowledge base.
C7_SafeMove ==
  /\ [](lastOp = "safe" =>
          /\ move = None <=> safes \ moves_made = {}
          /\ move # None => move \in safes \ moves_made)
  /\ [][lastOp' = "safe" => UNCHANGED kb]_vars

C7_Witness ==
  /\ lastOp = "safe" /\ move # None
  /\ moves_made # {} /\ mines # {}

\* C8: make_random_move returns a grid cell that is neither a move made
\* nor a known mine, None exactly when there is no such cell, and changes
\* nothing of the knowledge base.
C8_RandomMove ==
  /\ [](lastOp = "random" =>
          /\ move = None <=> all_moves \ (moves_made \cup mines) = {}
          /\ move # None => move \in all_moves \ (moves_made \cup mines))
  /\ [][lastOp' = "random" => UNCHANGED kb]_vars

C8_Witness ==
  /\ lastOp = "random" /\ move # None
  /\ moves_made # {} /\ mines # {}

\* C9: monotonicity.  No step of add_knowledge, make_safe_move or
\* make_random_move removes a member from moves_made, safes or mines.
C9_Monotonic ==
  [][/\ moves_made \subseteq moves_made'
     /\ safes \subseteq safes'
     /\ mines \subseteq mines']_vars

C9_Witness ==
  /\ Returned /\ Len(obs) = 2
  /\ mines # {}
  /\ Cardinality(safes) > Cardinality(moves_made)

\* Scenario B: 2x2 grid, one mine at (1,1), (0,0) observed with 1 and then
\* (0,1) observed with 1, add_knowledge returned
ScenarioB ==
  /\ height = 2 /\ width = 2
  /\ layout = {<<1, 1>>}
  /\ obs = << <<(<<0, 0>>), 1>>, <<(<<0, 1>>), 1>> >>
  /\ pc = "idle"

\* C10 as stated: after Scenario B, (1,1) is a known mine and (1,0) a
\* known safe.
C10_ScenarioB_Original ==
  ScenarioB => <<1, 1>> \in mines /\ <<1, 0>> \in safes

\* C10 amended: after Scenario B nothing is deduced about (1,0) and (1,1):
\* self.mines is empty, self.safes is the two observed cells, and both
\* sentences of the working set are {(1,0),(1,1)} = 1.
C10_ScenarioB ==
  ScenarioB =>
    /\ mines = {}
    /\ safes = {<<0, 0>>, <<0, 1>>}
    /\ Len(knowledge) = 2
    /\ Working = {[cells |-> {<<1, 0>>, <<1, 1>>}, count |-> 1]}

C10_Witness == ScenarioB /\ Len(knowledge) = 2

\* the 2x2 grid without mines
MineFree2x2 == height = 2 /\ width = 2 /\ layout = {}

\* C11: a mine-free 2x2 grid is won by safe moves.  Once an observation
\* (count 0) has returned, self.safes is the whole grid; observing the
\* cell make_safe_move returns, again and again, eventually makes
\* moves_made the whole grid; and make_safe_move returns None only when
\* every cell has been visited.
C11_MineFreeWon ==
  /\ []((MineFree2x2 /\ Returned) => safes = all_moves)
  /\ []((MineFree2x2 /\ lastOp = "safe" /\ move = None)
          => moves_made = all_moves)
  /\ (MineFree2x2 => <>(moves_made = all_moves))

C11_Witness ==
  /\ MineFree2x2
  /\ moves_made = all_moves
  /\ lastOp = "safe" /\ move = None

\* C12: termination of propagation.  Every call of add_knowledge, with any
\* cell and any count, returns: the while loop and the recursion of
\* reason_about_new_knowledge always come to an end.
C12_Terminates == (pc # "idle") ~> (pc = "idle")

C12_Witness ==
  /\ pc = "reason" /\ Len(stack) >= 2
  /\ Len(obs) = 2

\* the fact derived from sentences a and b with b.cells a proper subset of
\* a.cells is in the working set, or is already discharged
Derived(a, b) == [cells |-> a.cells \ b.cells, count |-> a.count - b.count]

Resolved(d) ==
  \/ d \in Working
  \/ d.count = 0 /\ d.cells \subseteq safes
  \/ d.count = Cardinality(d.cells) /\ d.cells \subseteq mines

\* C13: subset resolution completeness.  After add_knowledge returns, for
\* every two sentences a, b of the working set with b.cells a proper subset
\* of a.cells, the fact (a.cells - b.cells, a.count - b.count) is in the
\* working set or already discharged, whichever of the two is the newer.
C13_SubsetResolved ==
  Returned =>
    \A ia, ib \in Range(knowledge) :
      (ia # ib /\ ProperSuperset(sent[ia], sent[ib]))
        => Resolved(Derived(sent[ia], sent[ib]))

\* C14: empty sentences are removed.  After add_knowledge returns, the
\* working set holds no sentence whose cell set is empty, the sentence of
\* that call included.
C14_NoEmptySentence ==
  Returned => \A s \in Working : s.cells # {}

\* the cell and the count of the call of add_knowledge in progress, and the
\* sentence it appended
LastCell == obs[Len(obs)][1]

LastCount == obs[Len(obs)][2]

NewSentence == sent[knowledge[Len(knowledge)]]

\* add_knowledge has appended its sentence and discharged the known mines
\* into it, reason_about_new_knowledge has not started
BeforePropagation == pc = "discharge" /\ pend = {}

\* C15: construction of the new sentence.  When add_knowledge has recorded
\* the cell and discharged the known mines, the new sentence's cells are
\* the in-grid neighbours of the cell that are neither known safe nor known
\* mines, its count is the reported count minus the number of neighbours
\* that are known mines, and the observed cell is not among its cells.
C15_NewSentence ==
  BeforePropagation =>
    LET neighbours == Block(LastCell) \ {LastCell}
    IN /\ NewSentence.cells = {c \in neighbours : c \notin safes /\ c \notin mines}
       /\ NewSentence.count = LastCount - Cardinality(neighbours \cap mines)
       /\ LastCell \notin NewSentence.cells

C15_Witness ==
  /\ BeforePropagation
  /\ (Block(LastCell) \ {LastCell}) \cap mines # {}
  /\ (Block(LastCell) \ {LastCell}) \cap safes # {}
  /\ NewSentence.cells # {}

\* C16: broadcast of facts.  After add_knowledge returns, no sentence of
\* the working set contains a cell of self.safes or of self.mines.
C16_Broadcast ==
  Returned => \A s \in Working : s.cells \cap (safes \cup mines) = {}

C16_Witness ==
  /\ Returned
  /\ safes # moves_made
  /\ Cardinality({id \in Range(knowledge) : sent[id].cells # {}}) >= 2

\* C17: idempotence of propagation.  When add_knowledge has returned, a
\* further run of reason_about_new_knowledge on a sentence of the working
\* set changes neither self.safes nor self.mines nor the cells or count of
\* any sentence.
C17_Idempotent ==
  [][lastOp' = "rerun" => (safes' = safes /\ mines' = mines /\ sent' = sent)]_vars

\* C18: determinism of inference.  Whatever order the sets of cells are
\* iterated in, a run ends every call of add_knowledge with the
\* self.safes and self.mines of the run that iterates them least cell
\* first on the same grid and the same calls; so any two runs on the same
\* grid and calls end with the same two sets.
C18_Deterministic ==
  (Returned /\ lastOp = "observe") =>
    LET k == FixedAfter(Len(obs))
    IN safes = k.safes /\ mines = k.mines

C18_Witness ==
  /\ Returned /\ lastOp = "observe"
  /\ Cardinality(mines) >= 2
  /\ Cardinality(safes \ moves_made) >= 2

\* t is the sentence s after cell c was resolved, d being 1 for a mine and
\* 0 for a safe
ResolvedAs(s, t, c, d) ==
  IF c \in s.cells
  THEN t.cells = s.cells \ {c} /\ t.count = s.count - d
  ELSE t = s

\* C19: the resolve operations of a sentence.  In every step that marks a
\* cell, each sentence of self.knowledge that holds the cell loses exactly
\* that cell, and its count goes down by exactly 1 when the cell is marked
\* a mine (Sentence.mark_mine) and stays when it is marked safe
\* (Sentence.mark_safe); a sentence that does not hold the cell keeps its
\* cells and its count.
C19_Resolve ==
  [][ /\ (pc = "discharge" /\ pend' # pend) =>
           \E c \in pend \ pend' :
             \A id \in Range(knowledge) : ResolvedAs(sent[id], sent'[id], c, 1)
      /\ (pc = "reason" /\ Top.pc = "mark" /\ Top.km # {}) =>
           \E c \in Top.km \ stack'[Len(stack)].km :
             \A id \in Range(knowledge) : ResolvedAs(sent[id], sent'[id], c, 1)
      /\ (pc = "reason" /\ Top.pc = "mark" /\ Top.km = {}) =>
           \E c \in Top.ks \ stack'[Len(stack)].ks :
             \A id \in Range(knowledge) : ResolvedAs(sent[id], sent'[id], c, 0)
      /\ (pc = "idle" /\ obs' # obs) =>
           \A id \in Range(knowledge) :
             ResolvedAs(sent[id], sent'[id], obs'[Len(obs')][1], 0)
    ]_vars

\* a mine has been marked, more are to be marked, and of the sentences one
\* holds a cell about to be marked and another, not empty, holds none
C19_Witness ==
  /\ pc = "reason"
  /\ Top.pc = "mark"
  /\ Top.km # {}
  /\ mines \ Top.km # {}
  /\ \E id1, id2 \in Range(knowledge) :
       /\ sent[id1].cells \cap Top.km # {}
       /\ sent[id2].cells # {}
       /\ sent[id2].cells \cap Top.km = {}

\* C20: result(board, action) of tic-tac-toe.  On every board of a play from
\* the initial board, a call with an action that is not an empty cell of
\* the board raises ValueError; any other call returns a board that holds
\* player(board)'s mark in the action cell and equals the board passed in
\* everywhere else; the board passed in is as it was before the call; and
\* the movers of a play are X, O, X, ... in turn.
C20_Result ==
  /\ call.action # None =>
       /\ call.input = call.board
       /\ IF call.action \in {c \in Cells3 : call.board[c] = EMPTY}
          THEN /\ ~call.raised
               /\ call.ret[call.action] = player(call.board)
               /\ \A c \in Cells3 \ {call.action} : call.ret[c] = call.board[c]
          ELSE call.raised
  /\ \A i \in DOMAIN movers : movers[i] = IF i % 2 = 1 THEN X ELSE O

\* after X, O, X a call on an occupied cell has raised ValueError
C20_Witness ==
  /\ Len(movers) >= 3
  /\ call.action \in Cells3
  /\ call.raised
  /\ board = call.board

\* ---- the value of a board under full minimax, without pruning, tabled
\* from the full boards up over the boards that moves from the initial
\* board lead to ----
\* the best for the player to move of the values t gives the successors
OptimalValue(b, t) ==
  IF terminal(b) THEN utility(b)
  ELSE LET vs == {t[result(b, a).ret] : a \in actions(b)}
       IN IF player(b) = X
          THEN CHOOSE v \in vs : \A u \in vs : u <= v
          ELSE CHOOSE v \in vs : \A u \in vs : v <= u

\* the boards one move leads to from the boards bs
Successors(bs) ==
  UNION {{result(b, a).ret : a \in actions(b)} : b \in bs}

\* the values of the boards bs, which have k empty cells, and of every
\* board that moves lead to from them
RECURSIVE GameValues(_, _)
GameValues(bs, k) ==
  IF k = 0 THEN [b \in bs |-> utility(b)]
  ELSE LET t == GameValues(Successors(bs), k - 1)
       IN t @@ [b \in bs |-> OptimalValue(b, t)]

GameValue == GameValues({initial_state}, 9)

\* C21: minimax is optimal.  On a board of a play that is not terminal,
\* minimax returns an empty cell of the board, and the board that action
\* leads to has, under full minimax without pruning, the value of the
\* board itself: the maximum over the actions when X is to move, the
\* minimum when O is.  On a terminal board minimax returns None.
C21_MinimaxOptimal ==
  \A i \in DOMAIN best :
    IF terminal(best[i].board)
    THEN best[i].action = None
    ELSE /\ best[i].action \in actions(best[i].board)
         /\ GameValue[result(best[i].board, best[i].action).ret]
              = GameValue[best[i].board]

\* minimax has answered on a board with seven or more empty cells where
\* not every action is optimal
C21_Witness ==
  /\ best # <<>>
  /\ ~terminal(board)
  /\ Count(board, EMPTY) >= 7
  /\ \E a \in actions(board) :
       GameValue[result(board, a).ret] # GameValue[board]

====
